---- MODULE Spec2Model ----
(***************************************************************************)
(* A model of the Donizo material price scraper (scraper.py).              *)
(*                                                                         *)
(* Text is modelled as a sequence of one-character strings, so that the    *)
(* regular expressions of the normalizer are matched character by          *)
(* character.  Python's None is modelled by NoneText for texts and by      *)
(* NoneVal for numbers.  A float is modelled by the integer number of      *)
(* thousandths it stands for, which is exact for the inputs drawn. *)
(***************************************************************************)
EXTENDS Integers, Sequences, FiniteSets, TLC

\* ------------------------------------------------------------------------
\* Python values

NoneText == <<"None">>
NoneVal == -1

\* ------------------------------------------------------------------------
\* Characters

DigitChars == {"0", "1", "2", "3", "4", "5", "6", "7", "8", "9"}

DigitVal(c) ==
  CASE c = "0" -> 0 [] c = "1" -> 1 [] c = "2" -> 2 [] c = "3" -> 3
    [] c = "4" -> 4 [] c = "5" -> 5 [] c = "6" -> 6 [] c = "7" -> 7
    [] c = "8" -> 8 [] c = "9" -> 9 [] OTHER -> 0

\* str.lower() / re.I case folding on the letters the model uses
Lower(c) ==
  CASE c = "M" -> "m" [] c = "L" -> "l" [] c = "K" -> "k" [] c = "G" -> "g"
    [] c = "P" -> "p" [] c = "I" -> "i" [] c = "È" -> "è" [] c = "C" -> "c"
    [] c = "E" -> "e" [] c = "U" -> "u" [] c = "N" -> "n" [] c = "T" -> "t"
    [] c = "É" -> "é" [] c = "A" -> "a" [] c = "Q" -> "q" [] c = "B" -> "b"
    [] c = "O" -> "o" [] c = "Î" -> "î" [] c = "R" -> "r" [] OTHER -> c

Upper(c) ==
  CASE c = "m" -> "M" [] c = "l" -> "L" [] c = "k" -> "K" [] c = "g" -> "G"
    [] c = "p" -> "P" [] c = "i" -> "I" [] c = "è" -> "È" [] c = "c" -> "C"
    [] c = "e" -> "E" [] c = "u" -> "U" [] c = "n" -> "N" [] c = "t" -> "T"
    [] c = "é" -> "É" [] c = "a" -> "A" [] c = "q" -> "Q" [] c = "b" -> "B"
    [] c = "o" -> "O" [] c = "î" -> "Î" [] c = "r" -> "R" [] OTHER -> c

\* the characters of the model's texts that are no word characters
NonWordChars == {"", " ", "nbsp", "/", "€", "£", ".", ",", ":"}

IsDigit(c) == c \in DigitChars

\* \s of the patterns, after the non-breaking space has been replaced
IsSpace(c) == c = " "

IsSep(c) == c \in {".", ","}

\* \w of the patterns: letters, digits and the superscript two, which
\* str.isalnum() holds of
IsWord(c) == c \notin NonWordChars

At(t, i) == IF i >= 1 /\ i <= Len(t) THEN t[i] ELSE ""

LowerText(t) == [i \in 1..Len(t) |-> Lower(t[i])]

UpperText(t) == [i \in 1..Len(t) |-> Upper(t[i])]

\* t[i..] starts with the characters of w, letter case ignored
StartsWithI(t, i, w) ==
  /\ i + Len(w) - 1 <= Len(t)
  /\ \A k \in 1..Len(w) : Lower(t[i + k - 1]) = Lower(w[k])

\* text.replace(a, b) for a single character a
ReplaceChar(t, a, b) == [i \in 1..Len(t) |-> IF t[i] = a THEN b ELSE t[i]]

\* text.replace(a, "") for a single character a
RECURSIVE RemoveChar(_, _)
RemoveChar(t, a) ==
  IF t = <<>> THEN <<>>
  ELSE IF Head(t) = a THEN RemoveChar(Tail(t), a)
       ELSE <<Head(t)>> \o RemoveChar(Tail(t), a)

RECURSIVE LStrip(_)
LStrip(t) == IF t # <<>> /\ IsSpace(Head(t)) THEN LStrip(Tail(t)) ELSE t

RECURSIVE RStrip(_)
RStrip(t) ==
  IF t # <<>> /\ IsSpace(t[Len(t)]) THEN RStrip(SubSeq(t, 1, Len(t) - 1)) ELSE t

\* str.strip()
Strip(t) == RStrip(LStrip(t))

\* first index >= i of t that holds no whitespace (Len(t) + 1 at the end)
RECURSIVE SkipSpace(_, _)
SkipSpace(t, i) == IF i <= Len(t) /\ IsSpace(t[i]) THEN SkipSpace(t, i + 1) ELSE i

\* first index >= i of t that holds no digit
RECURSIVE SkipDigits(_, _)
SkipDigits(t, i) == IF i <= Len(t) /\ IsDigit(t[i]) THEN SkipDigits(t, i + 1) ELSE i

\* ------------------------------------------------------------------------
\* PRICE_REGEX

\* (€|EUR|£) under re.I at index i: the length matched, 0 for no match
CurrencyLen(t, i) ==
  IF At(t, i) \in {"€", "£"} THEN 1
  ELSE IF StartsWithI(t, i, <<"E", "U", "R">>) THEN 3
  ELSE 0

\* \d+[.,]?\d*(?:[.,]\d{2})? from index j, greedily: the index after the
\* match, j itself for no match.  Nothing follows the amount in the first
\* alternative, so the greedy path is the one the engine returns.
AmountEnd(t, j) ==
  LET k1 == SkipDigits(t, j)
      k2 == IF IsSep(At(t, k1)) THEN k1 + 1 ELSE k1
      k3 == SkipDigits(t, k2)
      k4 == IF IsSep(At(t, k3)) /\ IsDigit(At(t, k3 + 1)) /\ IsDigit(At(t, k3 + 2))
            THEN k3 + 3 ELSE k3
  IN IF k1 = j THEN j ELSE k4

\* \d+[.,]?\d* from index j, greedily
Amount2End(t, j) ==
  LET k1 == SkipDigits(t, j)
      k2 == IF IsSep(At(t, k1)) THEN k1 + 1 ELSE k1
      k3 == SkipDigits(t, k2)
  IN IF k1 = j THEN j ELSE k3

NoMatch == [matched |-> FALSE, currency |-> <<>>, amount |-> <<>>]

\* first alternative at index i: (?P<currency>...)\s*(?P<amount>...)
Alt1(t, i) ==
  LET c == CurrencyLen(t, i)
      j == SkipSpace(t, i + c)
      e == AmountEnd(t, j)
  IN IF c = 0 \/ e = j THEN NoMatch
     ELSE [matched |-> TRUE,
           currency |-> SubSeq(t, i, i + c - 1),
           amount |-> SubSeq(t, j, e - 1)]

\* second alternative at index i: (?P<amount2>...)\s*(?P<currency2>...).
\* A currency starts with no digit, separator or space, so giving back
\* characters of the greedy amount or of \s* never makes it match.
Alt2(t, i) ==
  LET e == Amount2End(t, i)
      w == SkipSpace(t, e)
      c == CurrencyLen(t, w)
  IN IF e = i \/ c = 0 THEN NoMatch
     ELSE [matched |-> TRUE,
           currency |-> SubSeq(t, w, w + c - 1),
           amount |-> SubSeq(t, i, e - 1)]

\* PRICE_REGEX.search(t): the leftmost match, the first alternative first
RECURSIVE PriceSearchFrom(_, _)
PriceSearchFrom(t, i) ==
  IF i > Len(t) THEN NoMatch
  ELSE IF Alt1(t, i).matched THEN Alt1(t, i)
  ELSE IF Alt2(t, i).matched THEN Alt2(t, i)
  ELSE PriceSearchFrom(t, i + 1)

PriceSearch(t) == PriceSearchFrom(t, 1)

\* ------------------------------------------------------------------------
\* UNIT_REGEX

\* the alternatives of the unit group, in the order of the pattern
UnitAlternatives ==
  << <<"m", "2">>, <<"m", "²">>, <<"m", "3">>, <<"L">>, <<"l">>, <<"k", "g">>,
     <<"p", "i", "è", "c", "e">>, <<"u", "n", "i", "t", "é">>,
     <<"p", "a", "q", "u", "e", "t">>, <<"b", "o", "î", "t", "e">>,
     <<"m">>, <<"m", "l">> >>

\* (?:/|par) under re.I at index i: the length matched, 0 for no match
MarkerLen(t, i) ==
  IF At(t, i) = "/" THEN 1
  ELSE IF StartsWithI(t, i, <<"p", "a", "r">>) THEN 3
  ELSE 0

\* \b after a unit that ends at index e - 1 (every unit ends in a word
\* character): the next character is no word character, or the text ends
BoundaryAt(t, e) == e > Len(t) \/ ~IsWord(t[e])

\* the unit group at index j: the first alternative, from number a on, that
\* matches and is followed by \b; the text it matched
RECURSIVE UnitAt(_, _, _)
UnitAt(t, j, a) ==
  IF a > Len(UnitAlternatives) THEN NoneText
  ELSE LET u == UnitAlternatives[a]
       IN IF StartsWithI(t, j, u) /\ BoundaryAt(t, j + Len(u))
          THEN SubSeq(t, j, j + Len(u) - 1)
          ELSE UnitAt(t, j, a + 1)

\* UNIT_REGEX.search(t).group(1), NoneText for no match
RECURSIVE UnitSearchFrom(_, _)
UnitSearchFrom(t, i) ==
  IF i > Len(t) THEN NoneText
  ELSE LET c == MarkerLen(t, i)
           u == IF c = 0 THEN NoneText ELSE UnitAt(t, SkipSpace(t, i + c), 1)
       IN IF u # NoneText THEN u ELSE UnitSearchFrom(t, i + 1)

UnitSearch(t) == UnitSearchFrom(t, 1)

\* ------------------------------------------------------------------------
\* parse_price_unit

NBSP == "nbsp"

CountChar(t, a) == Cardinality({i \in 1..Len(t) : t[i] = a})

\* the index of the first a in t, Len(t) + 1 when there is none
RECURSIVE IndexOf(_, _, _)
IndexOf(t, a, i) == IF i > Len(t) \/ t[i] = a THEN i ELSE IndexOf(t, a, i + 1)

\* int(digits) for a sequence of digits, 0 for the empty one
RECURSIVE DigitsToNat(_)
DigitsToNat(d) ==
  IF d = <<>> THEN 0
  ELSE 10 * DigitsToNat(SubSeq(d, 1, Len(d) - 1)) + DigitVal(d[Len(d)])

\* the thousandths a sequence of decimals stands for (decimals after the
\* third are below the model's resolution)
Thousandths(d) ==
  100 * DigitVal(At(d, 1)) + 10 * DigitVal(At(d, 2)) + DigitVal(At(d, 3))

\* float(amount) in thousandths, for an amount of digits and points that
\* starts with a digit; NoneVal where float() raises ValueError (two points)
ParseFloat(a) ==
  IF CountChar(a, ".") > 1 THEN NoneVal
  ELSE LET dot == IndexOf(a, ".", 1)
       IN 1000 * DigitsToNat(SubSeq(a, 1, dot - 1))
            + Thousandths(SubSeq(a, dot + 1, Len(a)))

\* parse_price_unit(text) -> (val, currency, unit, raw)
parse_price_unit(text) ==
  IF text = NoneText \/ text = <<>>
  THEN [val |-> NoneVal, currency |-> NoneText, unit |-> NoneText, raw |-> NoneText]
  ELSE
    LET t == Strip(ReplaceChar(text, NBSP, " "))
        m == PriceSearch(t)
        cur0 == IF m.matched THEN Strip(m.currency) ELSE NoneText
        amount == IF m.matched
                  THEN ReplaceChar(RemoveChar(m.amount, " "), ",", ".")
                  ELSE NoneText
        val == IF amount # NoneText /\ amount # <<>> THEN ParseFloat(amount)
               ELSE NoneVal
        currency == IF cur0 # NoneText /\ cur0 # <<>> /\ Upper(cur0[1]) = "E"
                    THEN <<"€">> ELSE cur0
    IN [val |-> val, currency |-> currency, unit |-> UnitSearch(t), raw |-> t]

\* ------------------------------------------------------------------------
\* Price texts of the shapes "<amount> €" and "€<amount>", with an optional
\* "/ <unit>" after them

PriceLeads == {<<"8">>, <<"1", "9">>, <<"1">>}

\* a thousands group after the leading digits, spaced as French prices are
PriceGroups == {<<>>, <<" ", "2", "3", "4">>, <<NBSP, "2", "3", "4">>}

PriceDecimals ==
  {<<>>, <<",", "9">>, <<",", "9", "0">>, <<".", "5", "6">>, <<".", "9", "0", "5">>}

PriceGaps == {<<" ">>, <<NBSP>>}

UnitTokens ==
  {LowerText(UnitAlternatives[a]) : a \in 1..Len(UnitAlternatives)}
    \cup {UpperText(UnitAlternatives[a]) : a \in 1..Len(UnitAlternatives)}

UnitMarkers == {<<" ", "/", " ">>, <<"/">>}

PriceInputs ==
  [shape : {"pre", "post"}, lead : PriceLeads, group : PriceGroups,
   dec : PriceDecimals, gap : PriceGaps,
   marker : UnitMarkers, unit : UnitTokens \cup {<<>>}]

PriceText(x) ==
  LET amount == x.lead \o x.group \o x.dec
      tail == IF x.unit = <<>> THEN <<>> ELSE x.marker \o x.unit
  IN IF x.shape = "pre" THEN <<"€">> \o amount \o tail
     ELSE amount \o x.gap \o <<"€">> \o tail

\* the decimal value the whole amount of x stands for, in thousandths
IntendedValue(x) ==
  1000 * DigitsToNat(x.lead \o SubSeq(x.group, 2, Len(x.group)))
    + Thousandths(SubSeq(x.dec, 2, Len(x.dec)))


\* ------------------------------------------------------------------------
\* paginate
\*
\* A URL is a record of its parts; its query is the sequence of its
\* key/value pairs in the order of the string, each value a text (the empty
\* text for "k=" and for a key with no "=").  Percent-encoding is not
\* modelled: values are the decoded ones.

\* str(p) for p >= 0
RECURSIVE IntToText(_)
IntToText(n) ==
  IF n < 10 THEN <<CHOOSE c \in DigitChars : DigitVal(c) = n>>
  ELSE IntToText(n \div 10) \o <<CHOOSE c \in DigitChars : DigitVal(c) = n % 10>>

\* the index of key k in the dict d (a sequence of [k, v] entries in
\* insertion order), 0 when d has no such key
DictIndex(d, k) ==
  IF \E i \in 1..Len(d) : d[i].k = k
  THEN CHOOSE i \in 1..Len(d) : d[i].k = k
  ELSE 0

\* d[k] = v: a key the dict holds keeps its place, a new one goes last
DictSet(d, k, v) ==
  IF DictIndex(d, k) = 0 THEN Append(d, [k |-> k, v |-> v])
  ELSE [d EXCEPT ![DictIndex(d, k)] = [k |-> k, v |-> v]]

\* parse_qs(query), keep_blank_values left False: the values of each key in
\* order, the pairs with a blank value dropped
RECURSIVE parse_qs(_)
parse_qs(query) ==
  IF query = <<>> THEN <<>>
  ELSE LET rest == parse_qs(SubSeq(query, 1, Len(query) - 1))
           pair == query[Len(query)]
           i == DictIndex(rest, pair[1])
       IN IF pair[2] = <<>> THEN rest
          ELSE IF i = 0 THEN Append(rest, [k |-> pair[1], v |-> <<pair[2]>>])
          ELSE [rest EXCEPT ![i].v = Append(@, pair[2])]

\* urlencode({k: v[0] for k, v in q.items()}): one pair per key
urlencode_first(q) == [i \in 1..Len(q) |-> <<q[i].k, q[i].v[1]>>]

\* one turn of the loop of paginate: q after q[param] = [str(p)], and the
\* URL yielded
paginate_q(q, param, p) == DictSet(q, param, <<IntToText(p)>>)

paginate_url(parsed, q) == [parsed EXCEPT !.query = urlencode_first(q)]

\* list(paginate(url, param, start, max_pages))
RECURSIVE paginate_from(_, _, _, _, _)
paginate_from(parsed, q, param, p, stop) ==
  IF p >= stop THEN <<>>
  ELSE LET q1 == paginate_q(q, param, p)
       IN <<paginate_url(parsed, q1)>> \o paginate_from(parsed, q1, param, p + 1, stop)

paginate(url, param, start, max_pages) ==
  paginate_from(url, parse_qs(url.query), param, start, start + max_pages)

\* ------------------------------------------------------------------------
\* the dedup step of run_scrape

\* a dict that keeps the first record of an id instead of the last
RECURSIVE dedup_dict_first_wins(_)
dedup_dict_first_wins(all_items) ==
  IF all_items = <<>> THEN <<>>
  ELSE LET it == all_items[Len(all_items)]
           d == dedup_dict_first_wins(SubSeq(all_items, 1, Len(all_items) - 1))
       IN IF DictIndex(d, it.id) = 0 THEN DictSet(d, it.id, it) ELSE d

\* dedup = {}; for it in all_items: dedup[it.id] = it
RECURSIVE dedup_dict(_)
dedup_dict(all_items) ==
  IF all_items = <<>> THEN <<>>
  ELSE LET it == all_items[Len(all_items)]
       IN DictSet(dedup_dict(SubSeq(all_items, 1, Len(all_items) - 1)), it.id, it)

\* list(dedup.values())
Dedup(all_items) ==
  LET d == dedup_dict(all_items) IN [i \in 1..Len(d) |-> d[i].v]


\* ------------------------------------------------------------------------
\* parse_card
\*
\* parse_card calls parse_price_unit on the price text of the card.  The
\* model looks the result up in price_memo, which holds parse_price_unit of
\* every price text a card of the model can hold: it is computed by Init and
\* never changed, so that the patterns are not matched again for every card
\* of every page.

VARIABLE price_memo

\*
\* A card is the record of what the lookups of parse_card find in it:
\*   name     the tag name of the card ("a" for a link)
\*   href     the card's own href attribute, when it is a link
\*   text     the card's own text, get_text(strip=True)
\*   parent   the nearest li/article/div ancestor of the card, NoNode when
\*            it has none
\*   node     the card as a container
\* A container (the card or its ancestor) is the record of what each
\* selector of the site finds in it: the text of the first matching node
\* (NoneText when nothing matches), the href and src attributes of the
\* url and image nodes, and its stripped strings.
\* An href is a record [kind, host, path]: kind "none" for no attribute,
\* "empty" for href="", "abs" for an absolute URL, "root" for a path that
\* starts with "/", "rel" for a relative path.

NoNode == [exists |-> FALSE]

NoUrl == [scheme |-> "", host |-> "", path |-> <<>>, query |-> <<>>]

NoHref == [kind |-> "none", host |-> "", path |-> <<>>]

\* urljoin(base, href) for an href of kind abs, root or rel
urljoin(base, href) ==
  CASE href.kind = "abs" ->
         [scheme |-> base.scheme, host |-> href.host, path |-> href.path, query |-> <<>>]
    [] href.kind = "root" ->
         [scheme |-> base.scheme, host |-> base.host, path |-> href.path, query |-> <<>>]
    [] href.kind = "rel" ->
         [scheme |-> base.scheme, host |-> base.host,
          path |-> SubSeq(base.path, 1, Len(base.path) - 1) \o href.path,
          query |-> <<>>]
    [] OTHER -> base

\* `if href`: an attribute that is present and not empty
Truthy(href) == href.kind \notin {"none", "empty"}

\* stable_id(*parts): the digest is modelled by the tuple it is taken of
\* (no two tuples of the model collide)
stable_id(site, category, name, url) == <<site, category, name, url>>

\* the first of the stripped strings that holds a euro sign
RECURSIVE first_euro_string(_)
first_euro_string(strings) ==
  IF strings = <<>> THEN NoneText
  ELSE IF \E i \in 1..Len(Head(strings)) : Head(strings)[i] = "€" THEN Head(strings)
  ELSE first_euro_string(Tail(strings))

\* container = card.find_parent(["li", "article", "div"]) or card, for a link
card_container(card) ==
  IF card.name = "a" /\ card.parent.exists THEN card.parent ELSE card.node

\* the href the url of the item is taken from
card_href(S, card) ==
  IF card.name = "a" THEN card.href
  ELSE IF S.url THEN card_container(card).url_href
  ELSE NoHref

\* a name that falls back to the card's own text whatever its tag
card_name_any_tag(S, card) ==
  LET name_text == IF S.name THEN card_container(card).name_text ELSE NoneText
  IN IF name_text # NoneText /\ name_text # <<>> THEN name_text
     ELSE IF card.text # <<>> THEN card.text
     ELSE NoneText

\* name = (text of the name node) or (the link's own text)
card_name(S, card) ==
  LET name_text == IF S.name THEN card_container(card).name_text ELSE NoneText
      first == IF name_text # NoneText /\ name_text # <<>> THEN name_text ELSE NoneText
  IN IF first # NoneText THEN first
     ELSE IF card.name = "a" /\ card.text # <<>> THEN card.text
     ELSE NoneText

card_price_text(S, card) ==
  LET c == card_container(card)
      sel == IF S.price THEN c.price_text ELSE NoneText
  IN IF sel # NoneText /\ sel # <<>> THEN sel ELSE first_euro_string(c.strings)

\* text_or_none(node) or None, for an optional field
OptionalText(configured, t) ==
  IF configured /\ t # NoneText /\ t # <<>> THEN t ELSE NoneText

NoItem == [exists |-> FALSE]

PriceTextOk == <<"1", "9", ",", "9", "5", " ", "€", " ", "/", " ", "m", "2">>

PriceTextNoAmount == <<"s", "u", "r", " ", "d", "e", "v", "i", "s">>

\* the price texts the cards of the model hold
CardPriceTexts == {PriceTextOk, PriceTextNoAmount, NoneText}

PriceMemo == [t \in CardPriceTexts |-> parse_price_unit(t)]

\* parse_price_unit(price_text), line 225
card_price(S, card) == price_memo[card_price_text(S, card)]

\* SiteScraper.parse_card(base_url, card, category), for the site site_key
\* with the selectors S (S.k is TRUE when the selector k is configured).
\* scraped_at, the reading of the clock, is left out of the record.
parse_card(site_key, S, base_url, card, category) ==
  LET container == card_container(card)
      href == card_href(S, card)
      full_url == IF Truthy(href) THEN urljoin(base_url, href) ELSE base_url
      name == card_name(S, card)
      pu == card_price(S, card)
      src == IF Truthy(container.img_src) THEN container.img_src
             ELSE container.img_data_src
  IN IF name = NoneText THEN NoItem
     ELSE [exists |-> TRUE,
           id |-> stable_id(site_key, category, name, full_url),
           site |-> site_key,
           category |-> category,
           name |-> name,
           brand |-> OptionalText(S.brand, container.brand_text),
           price |-> [value |-> pu.val, currency |-> pu.currency, raw |-> pu.raw],
           unit |-> pu.unit,
           url |-> full_url,
           image_url |-> IF S.image /\ container.has_img /\ Truthy(src)
                         THEN urljoin(base_url, src) ELSE NoUrl,
           availability |-> OptionalText(S.availability, container.avail_text)]


\* ------------------------------------------------------------------------
\* The inputs of the card parser

SiteKey == "castorama"

Categories == <<"tiles", "sinks">>

BaseUrl ==
  [scheme |-> "https", host |-> "site.fr", path |-> <<"c", "tiles">>,
   query |-> << <<"page", <<"2">>>> >>]

\* a container that holds a price and whose name and url nodes are as given
Container(name_text, url_href) ==
  [exists |-> TRUE, name_text |-> name_text, url_href |-> url_href,
   price_text |-> PriceTextOk, strings |-> <<PriceTextOk>>,
   brand_text |-> <<"E", "c", "o">>, has_img |-> TRUE,
   img_src |-> [kind |-> "abs", host |-> "img.fr", path |-> <<"p.jpg">>],
   img_data_src |-> NoHref, avail_text |-> NoneText]

Hrefs ==
  {NoHref,
   [kind |-> "empty", host |-> "", path |-> <<>>],
   [kind |-> "abs", host |-> "other.fr", path |-> <<"x">>],
   [kind |-> "root", host |-> "", path |-> <<"product", "D1">>],
   [kind |-> "rel", host |-> "", path |-> <<"D1">>]}

NameTexts == {NoneText, <<>>, <<"T", "i", "l", "e">>}

LinkTexts == {<<>>, <<"L", "i", "n", "k">>}

Containers ==
  {Container(n, h) : n \in NameTexts,
                     h \in {NoHref, [kind |-> "root", host |-> "", path |-> <<"u">>]}}

CardInputs ==
  [name : {"a", "div"}, href : Hrefs, text : LinkTexts,
   parent : {NoNode, Container(NoneText, NoHref),
             Container(<<"T", "i", "l", "e">>, NoHref)},
   node : Containers]

Selectors ==
  [product_card : {TRUE}, name : BOOLEAN, url : {TRUE}, price : {TRUE},
   brand : {TRUE}, image : {TRUE}, availability : {TRUE}]


\* ------------------------------------------------------------------------
\* State

VARIABLES
  pc,            \* where the modelled call stands
  price_input,   \* parse_price_unit: the price text drawn (a PriceInputs record)
  price_result,  \* parse_price_unit: what it returned
  pg_args,       \* paginate: [url, param, start, max_pages]
  pg_q,          \* paginate: the dict q
  pg_p,          \* paginate: the loop variable p
  pg_yielded,    \* paginate: the URLs yielded so far
  dd_items,      \* dedup: the list all_items
  dd_once,       \* dedup: the list returned for all_items
  dd_twice,      \* dedup: the list returned for that list
  card_args,     \* parse_card: [S, card]
  card_item,     \* parse_card: what it returned
  site_cfg,      \* scraper: the site configuration
  limit,         \* scraper: args.limit_per_category
  cat,           \* scraper: the index of the category being scraped
  all_items,     \* scraper: all_items of run_scrape
  output,        \* scraper: what run_scrape returned
  items,         \* scraper: items of scrape_category
  page,          \* scraper: the number of the URL of paginate being handled
  caller,        \* scraper: who called fetch, iterate_pages or the retry
  retries,       \* scraper: the retries session.get has left
  fetch,         \* scraper: the call of _fetch_html under way or just ended
  cards,         \* scraper: the cards selected from the current page
  ci,            \* scraper: the index of the next card to parse
  net_used,      \* scraper: a page request has been issued
  fetched,       \* scraper: the page numbers fetched for the current category
  failed,        \* scraper: those of them whose fetch raised
  refetched,     \* scraper: the pages after which the start URL was fetched once more
  exc            \* scraper: the exception that left run_scrape, if any

price_vars == <<price_input, price_result>>

pg_vars == <<pg_args, pg_q, pg_p, pg_yielded>>

dd_vars == <<dd_items, dd_once, dd_twice>>

card_vars == <<card_args, card_item>>

scraper_vars ==
  <<site_cfg, limit, cat, all_items, output, items, page, caller, retries,
    fetch, cards, ci, net_used, fetched, failed, refetched, exc,
    price_memo>>

vars == <<pc, price_vars, pg_vars, dd_vars, card_vars, scraper_vars>>

NoPriceResult ==
  [val |-> NoneVal, currency |-> NoneText, unit |-> NoneText, raw |-> NoneText]

PriceIdle ==
  /\ price_input = [shape |-> "pre", lead |-> <<>>, group |-> <<>>, dec |-> <<>>,
                    gap |-> <<>>, marker |-> <<>>, unit |-> <<>>]
  /\ price_result = NoPriceResult

PgIdle ==
  /\ pg_args = [url |-> NoUrl, param |-> "", start |-> 0, max_pages |-> 0]
  /\ pg_q = <<>>
  /\ pg_p = 0
  /\ pg_yielded = <<>>

DdIdle == dd_items = <<>> /\ dd_once = <<>> /\ dd_twice = <<>>

CardIdle == card_args = <<>> /\ card_item = NoItem

\* a call of _fetch_html: the response r of session.get (responded, status
\* and whether r.text.strip() is empty), whether fetch_with_playwright was
\* called and raised, and how the call ended: outcome "returned" with the
\* markup (the cards the page holds) taken from source "http" or
\* "playwright", or outcome "raised" with the error
NoFetch ==
  [status |-> 0, blank |-> TRUE, responded |-> FALSE, pw_tried |-> FALSE,
   pw_failed |-> FALSE, outcome |-> "none", error |-> "none",
   source |-> "none", markup |-> <<>>]

ScraperIdle ==
  /\ site_cfg = <<>>
  /\ limit = 0
  /\ cat = 0
  /\ all_items = <<>>
  /\ output = <<>>
  /\ items = <<>>
  /\ page = 0
  /\ caller = "none"
  /\ retries = 0
  /\ fetch = NoFetch
  /\ cards = <<>>
  /\ ci = 0
  /\ net_used = FALSE
  /\ fetched = {}
  /\ failed = {}
  /\ refetched = <<>>
  /\ exc = "none"

\* ------------------------------------------------------------------------
\* parse_price_unit applied to a drawn price text

InitPrice ==
  /\ pc = "price_call"
  /\ price_input \in PriceInputs
  /\ price_result = NoPriceResult
  /\ PgIdle /\ DdIdle /\ CardIdle /\ ScraperIdle
  /\ price_memo = <<>>

ParsePriceUnit ==
  /\ pc = "price_call"
  /\ price_result' = parse_price_unit(PriceText(price_input))
  /\ pc' = "price_done"
  /\ UNCHANGED <<price_input, pg_vars, dd_vars, card_vars, scraper_vars>>

SpecPrice == InitPrice /\ [][ParsePriceUnit]_vars

\* ------------------------------------------------------------------------
\* paginate, one URL a step

MaxQueryLen == 2

MaxPageCount == 2

QueryKeys == {"page", "f", "q"}

QueryValues == {<<>>, <<"a">>, <<"7">>}

RECURSIVE SeqsUpTo(_, _)
SeqsUpTo(S, n) ==
  IF n = 0 THEN {<<>>}
  ELSE LET shorter == SeqsUpTo(S, n - 1)
       IN shorter \cup {Append(q, x) : q \in {r \in shorter : Len(r) = n - 1}, x \in S}

StartUrls ==
  {[scheme |-> "https", host |-> "site.fr", path |-> <<"c", "tiles">>, query |-> q] :
     q \in SeqsUpTo(QueryKeys \X QueryValues, MaxQueryLen)}

InitPaginate ==
  /\ pc = "paginate_call"
  /\ pg_args \in [url : StartUrls, param : {"page"}, start : 1..2,
                  max_pages : 0..MaxPageCount]
  /\ pg_q = <<>>
  /\ pg_p = 0
  /\ pg_yielded = <<>>
  /\ PriceIdle /\ DdIdle /\ CardIdle /\ ScraperIdle
  /\ price_memo = <<>>

\* parsed = urlparse(url); q = parse_qs(parsed.query), up to the loop
PaginateCall ==
  /\ pc = "paginate_call"
  /\ pg_q' = parse_qs(pg_args.url.query)
  /\ pg_p' = pg_args.start
  /\ pc' = "paginate_loop"
  /\ UNCHANGED <<pg_args, pg_yielded, price_vars, dd_vars, card_vars, scraper_vars>>

\* one turn of the loop: q[param] = [str(p)], and the URL is yielded
PaginateYield ==
  /\ pc = "paginate_loop"
  /\ pg_p < pg_args.start + pg_args.max_pages
  /\ pg_q' = paginate_q(pg_q, pg_args.param, pg_p)
  /\ pg_yielded' = Append(pg_yielded, paginate_url(pg_args.url, pg_q'))
  /\ pg_p' = pg_p + 1
  /\ UNCHANGED <<pc, pg_args, price_vars, dd_vars, card_vars, scraper_vars>>

\* the range is exhausted: the generator ends
PaginateEnd ==
  /\ pc = "paginate_loop"
  /\ pg_p >= pg_args.start + pg_args.max_pages
  /\ pc' = "paginate_done"
  /\ UNCHANGED <<pg_vars, price_vars, dd_vars, card_vars, scraper_vars>>

NextPaginate == PaginateCall \/ PaginateYield \/ PaginateEnd

SpecPaginate == InitPaginate /\ [][NextPaginate]_vars

\* ------------------------------------------------------------------------
\* the dedup step applied to a drawn list, and to its own result

MaxItems == 4

ItemIds == {"id1", "id2", "id3"}

\* the items of a list differ at least in scraped_at, here their position
StampedItems(ids) == [i \in 1..Len(ids) |-> [id |-> ids[i], scraped_at |-> i]]

InitDedup ==
  /\ pc = "dedup_call"
  /\ dd_items \in {StampedItems(ids) : ids \in SeqsUpTo(ItemIds, MaxItems)}
  /\ dd_once = <<>>
  /\ dd_twice = <<>>
  /\ PriceIdle /\ PgIdle /\ CardIdle /\ ScraperIdle
  /\ price_memo = <<>>

DedupOnce ==
  /\ pc = "dedup_call"
  /\ dd_once' = Dedup(dd_items)
  /\ pc' = "dedup_once"
  /\ UNCHANGED <<dd_items, dd_twice, price_vars, pg_vars, card_vars, scraper_vars>>

DedupTwice ==
  /\ pc = "dedup_once"
  /\ dd_twice' = Dedup(dd_once)
  /\ pc' = "dedup_twice"
  /\ UNCHANGED <<dd_items, dd_once, price_vars, pg_vars, card_vars, scraper_vars>>

NextDedup == DedupOnce \/ DedupTwice

SpecDedup == InitDedup /\ [][NextDedup]_vars

\* ------------------------------------------------------------------------
\* parse_card applied to a drawn card

InitCard ==
  /\ pc = "card_call"
  /\ card_args \in [S : Selectors, card : CardInputs]
  /\ card_item = NoItem
  /\ PriceIdle /\ PgIdle /\ DdIdle /\ ScraperIdle
  /\ price_memo = PriceMemo

ParseCard ==
  /\ pc = "card_call"
  /\ card_item' = parse_card(SiteKey, card_args.S, BaseUrl, card_args.card, "tiles")
  /\ pc' = "card_done"
  /\ UNCHANGED <<card_args, price_vars, pg_vars, dd_vars, scraper_vars>>

SpecCard == InitCard /\ [][ParseCard]_vars


\* ------------------------------------------------------------------------
\* run_scrape over the categories of one site
\*
\* The site is scraped with the session of make_session: its adapter retries
\* a GET on the statuses of status_forcelist and on connection errors, and
\* raises when the retries are used up (urllib3's Retry, raise_on_status
\* left True), so session.get returns only responses of other statuses.

RetryTotal == 5

StatusForcelist == {403, 429, 500, 502, 503, 504}

PlaywrightStatuses == {403, 429}

\* the statuses a server of the model answers with
Statuses == {200, 204, 403, 404, 429, 500}

\* what one attempt of the adapter meets: a response, or a connection error
AttemptOutcomes ==
  [kind : {"response"}, status : Statuses, blank : BOOLEAN]
    \cup {[kind |-> "connection_error", status |-> 0, blank |-> TRUE]}

Retriable(o) == o.kind = "connection_error" \/ o.status \in StatusForcelist

\* what fetch_with_playwright meets
PlaywrightOutcomes == {"content", "not_installed", "navigation_error"}

MaxPages == 2

MaxCards == 2

MaxLimit == 3

FullSelectors ==
  [product_card |-> TRUE, name |-> TRUE, url |-> TRUE, price |-> TRUE,
   brand |-> TRUE, image |-> TRUE, availability |-> TRUE]

\* the cards of the pages of the model: a link with a price (the card of
\* test_parse_card_anchor_minimal), a block with a name node and a price,
\* a block with no name, and a link whose price text holds no amount
CardLink ==
  [name |-> "a", href |-> [kind |-> "root", host |-> "", path |-> <<"product", "D1">>],
   text |-> <<"L", "i", "n", "k">>, parent |-> Container(NoneText, NoHref),
   node |-> Container(NoneText, NoHref)]

CardBlock ==
  [name |-> "div", href |-> NoHref, text |-> <<>>, parent |-> NoNode,
   node |-> Container(<<"T", "i", "l", "e">>,
                      [kind |-> "rel", host |-> "", path |-> <<"D2">>])]

CardNoName ==
  [name |-> "div", href |-> NoHref, text |-> <<>>, parent |-> NoNode,
   node |-> Container(NoneText, NoHref)]

CardNoPrice ==
  [name |-> "a", href |-> [kind |-> "root", host |-> "", path |-> <<"product", "D3">>],
   text |-> <<"L", "i", "n", "k">>,
   parent |-> [Container(NoneText, NoHref) EXCEPT
                 !.price_text = PriceTextNoAmount,
                 !.strings = <<PriceTextNoAmount>>],
   node |-> Container(NoneText, NoHref)]

CardSamples == {CardLink, CardBlock, CardNoName, CardNoPrice}

\* the cards product_card selects in a page that was fetched
PageContents == SeqsUpTo(CardSamples, MaxCards)

SiteConfigs ==
  [use_playwright : BOOLEAN, has_product_card : BOOLEAN, param : {"", "page"},
   max_pages : 1..MaxPages,
   url_query : {<<>>, << <<"page", <<"1">>>> >>, << <<"page", <<"2">>>> >>}]

\* cat_cfg["url"] of category number c
start_url(c) ==
  [scheme |-> "https", host |-> "site.fr", path |-> <<"c", Categories[c]>>,
   query |-> site_cfg.url_query]

\* the URLs iterate_pages fetches for category number c, in order
page_urls(c) ==
  IF site_cfg.param # ""
  THEN paginate(start_url(c), site_cfg.param, 1, site_cfg.max_pages)
  ELSE <<start_url(c)>>

page_url == page_urls(cat)[page]

\* _fetch_html, line 165: the direct response is returned as it is
direct_ok(r) == r.status = 200 /\ ~r.blank

\* a fallback decided by the status alone
needs_playwright_by_status(cfg, r) == r.status \in PlaywrightStatuses

\* _fetch_html, line 167: the rendering fallback is called
needs_playwright(cfg, r) == cfg.use_playwright \/ r.status \in PlaywrightStatuses

\* a raise_for_status that lets the client errors through
raises_for_server_error(r) == r.status >= 500

\* _fetch_html, line 172: r.raise_for_status() raises
raises_for_status(r) == r.status >= 400

InitScrape ==
  /\ pc = "run"
  /\ site_cfg \in SiteConfigs
  /\ limit \in (-1)..MaxLimit
  /\ cat = 1
  /\ all_items = <<>>
  /\ output = <<>>
  /\ items = <<>>
  /\ page = 0
  /\ caller = "none"
  /\ retries = 0
  /\ fetch = NoFetch
  /\ cards = <<>>
  /\ ci = 0
  /\ net_used = FALSE
  /\ fetched = {}
  /\ failed = {}
  /\ refetched = <<>>
  /\ exc = "none"
  /\ price_memo = PriceMemo
  /\ PriceIdle /\ PgIdle /\ DdIdle /\ CardIdle

pure_vars == <<price_vars, pg_vars, dd_vars, card_vars, price_memo>>

\* run_scrape calls scrape_category for the next category, which asks
\* iterate_pages for its first page
ScrapeCategory ==
  /\ pc = "run"
  /\ cat <= Len(Categories)
  /\ items' = <<>>
  /\ page' = 1
  /\ caller' = "pages"
  /\ retries' = RetryTotal
  /\ fetch' = NoFetch
  /\ cards' = <<>>
  /\ ci' = 0
  /\ fetched' = {}
  /\ failed' = {}
  /\ refetched' = <<>>
  /\ pc' = "get"
  /\ UNCHANGED <<site_cfg, limit, cat, all_items, output, net_used, exc, pure_vars>>

\* run_scrape after the last category: the dedup step, and the return
RunScrapeReturn ==
  /\ pc = "run"
  /\ cat > Len(Categories)
  /\ output' = Dedup(all_items)
  /\ pc' = "done"
  /\ UNCHANGED <<site_cfg, limit, cat, all_items, items, page, caller, retries,
                 fetch, cards, ci, net_used, fetched, failed, refetched, exc, pure_vars>>

Requested ==
  /\ net_used' = TRUE
  /\ fetched' = IF caller = "pages" THEN fetched \cup {page} ELSE fetched

\* session.get: an attempt fails in a way the adapter retries
SessionGetRetry ==
  /\ pc = "get"
  /\ retries > 0
  /\ \E o \in AttemptOutcomes : Retriable(o)
  /\ retries' = retries - 1
  /\ Requested
  /\ UNCHANGED <<pc, site_cfg, limit, cat, all_items, output, items, page, caller,
                 fetch, cards, ci, failed, refetched, exc, pure_vars>>

\* session.get: the last attempt the adapter makes fails too, and it raises
SessionGetRaise ==
  /\ pc = "get"
  /\ retries = 0
  /\ \E o \in AttemptOutcomes :
       /\ Retriable(o)
       /\ fetch' = [NoFetch EXCEPT
                      !.outcome = "raised",
                      !.error = IF o.kind = "connection_error"
                                THEN "ConnectionError" ELSE "RetryError"]
  /\ Requested
  /\ retries' = 0
  /\ pc' = "fetched"
  /\ UNCHANGED <<site_cfg, limit, cat, all_items, output, items, page, caller,
                 cards, ci, failed, refetched, exc, pure_vars>>

\* session.get returns the response r
SessionGetResponse ==
  /\ pc = "get"
  /\ \E o \in AttemptOutcomes :
       /\ ~Retriable(o)
       /\ fetch' = [NoFetch EXCEPT !.responded = TRUE, !.status = o.status,
                                   !.blank = o.blank, !.outcome = "pending"]
  /\ Requested
  /\ retries' = 0
  /\ pc' = "response"
  /\ UNCHANGED <<site_cfg, limit, cat, all_items, output, items, page, caller,
                 cards, ci, failed, refetched, exc, pure_vars>>

fetch_unchanged ==
  UNCHANGED <<site_cfg, limit, cat, all_items, output, items, page, caller,
              retries, cards, ci, net_used, fetched, failed, refetched, exc, pure_vars>>

\* _fetch_html, lines 165-166: return r.text
FetchHtmlDirect ==
  /\ pc = "response"
  /\ direct_ok(fetch)
  /\ \E m \in PageContents :
       fetch' = [fetch EXCEPT !.outcome = "returned", !.source = "http", !.markup = m]
  /\ pc' = "fetched"
  /\ fetch_unchanged

\* _fetch_html, lines 167-169: fetch_with_playwright returns the content
FetchHtmlPlaywright ==
  /\ pc = "response"
  /\ ~direct_ok(fetch)
  /\ needs_playwright(site_cfg, fetch)
  /\ \E m \in PageContents :
       fetch' = [fetch EXCEPT !.pw_tried = TRUE, !.outcome = "returned",
                              !.source = "playwright", !.markup = m]
  /\ pc' = "fetched"
  /\ fetch_unchanged

\* _fetch_html, lines 172-173: r.raise_for_status(), then return r.text
\* (m is what the body holds when it is not blank)
after_status(r, m) ==
  IF raises_for_status(r)
  THEN [r EXCEPT !.outcome = "raised", !.error = "HTTPError"]
  ELSE [r EXCEPT !.outcome = "returned", !.source = "http",
                 !.markup = IF r.blank THEN <<>> ELSE m]

\* _fetch_html, lines 167-173: fetch_with_playwright raises, the warning is
\* printed and the status of r decides
FetchHtmlPlaywrightFails ==
  /\ pc = "response"
  /\ ~direct_ok(fetch)
  /\ needs_playwright(site_cfg, fetch)
  /\ \E pw \in PlaywrightOutcomes \ {"content"}, m \in PageContents :
       fetch' = after_status([fetch EXCEPT !.pw_tried = TRUE, !.pw_failed = TRUE], m)
  /\ pc' = "fetched"
  /\ fetch_unchanged

\* _fetch_html, lines 172-173 with no fallback: the status of r decides
FetchHtmlNoFallback ==
  /\ pc = "response"
  /\ ~direct_ok(fetch)
  /\ ~needs_playwright(site_cfg, fetch)
  /\ \E m \in PageContents : fetch' = after_status(fetch, m)
  /\ pc' = "fetched"
  /\ fetch_unchanged

\* iterate_pages goes on to the next URL of the paginator
NextPage ==
  /\ page' = page + 1
  /\ caller' = "pages"
  /\ retries' = RetryTotal
  /\ fetch' = NoFetch
  /\ cards' = <<>>
  /\ ci' = 0
  /\ pc' = "get"
  /\ UNCHANGED <<cat, all_items>>

\* scrape_category returns got, and run_scrape extends all_items with it
ReturnItems(got) ==
  /\ all_items' = all_items \o got
  /\ cat' = cat + 1
  /\ page' = 0
  /\ caller' = "none"
  /\ retries' = 0
  /\ fetch' = NoFetch
  /\ cards' = <<>>
  /\ ci' = 0
  /\ pc' = "run"

\* the loop over iterate_pages takes its next turn, or ends
Advance ==
  IF page < Len(page_urls(cat)) THEN NextPage ELSE ReturnItems(items)

\* an iterate_pages that lets the error of the fetch out
IteratePagesAbort ==
  /\ pc = "fetched"
  /\ caller = "pages"
  /\ fetch.outcome = "raised"
  /\ failed' = failed \cup {page}
  /\ exc' = fetch.error
  /\ pc' = "raised"
  /\ UNCHANGED <<site_cfg, limit, cat, all_items, output, items, page, caller,
                 retries, fetch, cards, ci, net_used, fetched, refetched,
                 pure_vars>>

\* iterate_pages, lines 186-187 and 191-192: the fetch raised, the warning is
\* printed and the page is passed over
IteratePagesSkip ==
  /\ pc = "fetched"
  /\ caller = "pages"
  /\ fetch.outcome = "raised"
  /\ failed' = failed \cup {page}
  /\ Advance
  /\ UNCHANGED <<site_cfg, limit, output, items, net_used, fetched, refetched, exc,
                 pure_vars>>

\* scrape_category, line 259: cards = soup.select(self.S["product_card"])
SelectCards ==
  /\ pc = "fetched"
  /\ caller = "pages"
  /\ fetch.outcome = "returned"
  /\ site_cfg.has_product_card
  /\ ~(fetch.markup = <<>> /\ page_url = start_url(cat))
  /\ cards' = fetch.markup
  /\ ci' = 1
  /\ fetch' = NoFetch
  /\ caller' = "none"
  /\ retries' = 0
  /\ pc' = "cards"
  /\ UNCHANGED <<site_cfg, limit, cat, all_items, output, items, page, net_used,
                 fetched, failed, refetched, exc, pure_vars>>

\* scrape_category, line 259 with no product_card selector: KeyError, which
\* nothing catches
SelectKeyError ==
  /\ pc = "fetched"
  /\ caller = "pages"
  /\ fetch.outcome = "returned"
  /\ ~site_cfg.has_product_card
  /\ exc' = "KeyError"
  /\ fetch' = NoFetch
  /\ pc' = "raised"
  /\ UNCHANGED <<site_cfg, limit, cat, all_items, output, items, page, caller,
                 retries, cards, ci, net_used, fetched, failed, refetched, pure_vars>>

\* scrape_category, lines 260-262: no card and page_url == start_url, the
\* start URL is fetched once more
RetryStartUrl ==
  /\ pc = "fetched"
  /\ caller = "pages"
  /\ fetch.outcome = "returned"
  /\ site_cfg.has_product_card
  /\ fetch.markup = <<>>
  /\ page_url = start_url(cat)
  /\ cards' = <<>>
  /\ caller' = "retry"
  /\ retries' = RetryTotal
  /\ fetch' = NoFetch
  /\ refetched' = Append(refetched, page)
  /\ pc' = "get"
  /\ UNCHANGED <<site_cfg, limit, cat, all_items, output, items, page, ci,
                 net_used, fetched, failed, exc, pure_vars>>

\* scrape_category, lines 262-265: the cards of the second fetch, or none
\* when it raised
RetryDone ==
  /\ pc = "fetched"
  /\ caller = "retry"
  /\ cards' = IF fetch.outcome = "returned" THEN fetch.markup ELSE <<>>
  /\ ci' = 1
  /\ fetch' = NoFetch
  /\ caller' = "none"
  /\ retries' = 0
  /\ pc' = "cards"
  /\ UNCHANGED <<site_cfg, limit, cat, all_items, output, items, page, net_used,
                 fetched, failed, refetched, exc, pure_vars>>

\* a filter that keeps the items with no price value
keeps_unpriced(it) == it.exists

\* scrape_category, line 268: the item is kept
keeps(it) == it.exists /\ it.price.value # NoneVal

\* scrape_category, line 270: the cap is reached
cap_reached(its, cap) == Len(its) >= cap

\* the item parse_card returns for the card at hand
current_item ==
  parse_card(SiteKey, FullSelectors, page_url, cards[ci], Categories[cat])

\* scrape_category, lines 266-269: the card is parsed and its item kept
ParseCardKeep ==
  /\ pc = "cards"
  /\ ci <= Len(cards)
  /\ keeps(current_item)
  /\ ~cap_reached(Append(items, current_item), limit)
  /\ items' = Append(items, current_item)
  /\ ci' = ci + 1
  /\ UNCHANGED <<pc, site_cfg, limit, cat, all_items, output, page, caller, retries,
                 fetch, cards, net_used, fetched, failed, refetched, exc, pure_vars>>

\* scrape_category, lines 266-271: the item kept reaches the cap, return items
ParseCardCap ==
  /\ pc = "cards"
  /\ ci <= Len(cards)
  /\ keeps(current_item)
  /\ cap_reached(Append(items, current_item), limit)
  /\ items' = Append(items, current_item)
  /\ ReturnItems(items')
  /\ UNCHANGED <<site_cfg, limit, output, net_used, fetched, failed, refetched, exc, pure_vars>>

\* scrape_category, lines 266-268: no item, or an item with no price value
ParseCardDrop ==
  /\ pc = "cards"
  /\ ci <= Len(cards)
  /\ ~keeps(current_item)
  /\ ci' = ci + 1
  /\ UNCHANGED <<pc, site_cfg, limit, cat, all_items, output, items, page, caller,
                 retries, fetch, cards, net_used, fetched, failed, refetched, exc, pure_vars>>

\* the cards of the page are used up
PageDone ==
  /\ pc = "cards"
  /\ ci > Len(cards)
  /\ Advance
  /\ UNCHANGED <<site_cfg, limit, output, items, net_used, fetched, failed, refetched, exc,
                 pure_vars>>

Next ==
  \/ ScrapeCategory
  \/ RunScrapeReturn
  \/ SessionGetRetry
  \/ SessionGetRaise
  \/ SessionGetResponse
  \/ FetchHtmlDirect
  \/ FetchHtmlPlaywright
  \/ FetchHtmlPlaywrightFails
  \/ FetchHtmlNoFallback
  \/ IteratePagesSkip
  \/ SelectCards
  \/ SelectKeyError
  \/ RetryStartUrl
  \/ RetryDone
  \/ ParseCardKeep
  \/ ParseCardCap
  \/ ParseCardDrop
  \/ PageDone

Spec == InitScrape /\ [][Next]_vars

\* ------------------------------------------------------------------------
\* Properties

\* the number of URLs iterate_pages fetches for a category
NumPages == IF site_cfg.param # "" THEN site_cfg.max_pages ELSE 1

FetchErrors == {"RetryError", "ConnectionError", "HTTPError"}

\* C1 as stated: the rendering fallback has been tried by the end of every
\* fetch whose direct response is not a 200 or has an empty body, and of
\* every fetch of a site whose driver is the rendering engine.
C1_FallbackAlwaysTried ==
  pc = "fetched" =>
    (((fetch.responded /\ (fetch.status # 200 \/ fetch.blank))
        \/ site_cfg.use_playwright)
       => fetch.pw_tried)

\* C1 as amended: the rendering fallback is tried on exactly the fetches
\* whose direct request returned a response that is not a 200 with a
\* non-blank body and whose site uses the rendering engine or whose status
\* is 403 or 429; every other fetch ends without it.
C1_FallbackTriedExactlyWhen ==
  pc = "fetched" =>
    (fetch.pw_tried <=>
       /\ fetch.responded
       /\ ~(fetch.status = 200 /\ ~fetch.blank)
       /\ (site_cfg.use_playwright \/ fetch.status \in {403, 429}))

\* a fetch of a rendering-engine site that got a 404 and tried the fallback
C1_Witness ==
  /\ pc = "fetched"
  /\ site_cfg.use_playwright
  /\ fetch.status = 404
  /\ fetch.pw_tried

\* C2 as stated: a fetch whose rendering fallback was tried and failed ends
\* by raising the error of the HTTP response, whatever its status and body.
C2_FailedFallbackAlwaysRaises ==
  (pc = "fetched" /\ fetch.pw_failed) =>
    (fetch.outcome = "raised" /\ fetch.error = "HTTPError")

\* C2 as amended: a fetch whose rendering fallback was tried and failed
\* raises the HTTP error of the response when its status is 400 or more,
\* and returns the body of the response (no markup when it is blank) when
\* its status is below 400.
C2_FailedFallbackFollowsStatus ==
  (pc = "fetched" /\ fetch.pw_failed) =>
    IF fetch.status >= 400
    THEN fetch.outcome = "raised" /\ fetch.error = "HTTPError"
    ELSE /\ fetch.outcome = "returned"
         /\ fetch.source = "http"
         /\ (fetch.blank => fetch.markup = <<>>)

\* the fallback failed after a 404, and the fetch raised
C2_Witness ==
  /\ pc = "fetched"
  /\ fetch.pw_failed
  /\ fetch.status = 404
  /\ fetch.outcome = "raised"

\* the list scrape_category returned reached the cap
Capped == items # <<>> /\ Len(items) >= limit

\* C3: when the fetch of a page raises, the page is passed over with the
\* items kept as they are and the next URL of the paginator is fetched (or
\* the category returns its items when it was the last); a category that
\* returned without reaching the cap fetched every page; and no fetch error
\* ever leaves scrape_category or run_scrape.
C3_PageFailureTolerated ==
  /\ [](exc \notin FetchErrors)
  /\ []((pc \in {"run", "done"} /\ cat > 1 /\ ~Capped) => fetched = 1..NumPages)
  /\ [][(pc = "fetched" /\ caller = "pages" /\ fetch.outcome = "raised") =>
          /\ items' = items
          /\ IF page < NumPages
             THEN pc' = "get" /\ page' = page + 1 /\ all_items' = all_items
             ELSE pc' = "run" /\ all_items' = all_items \o items]_vars

\* the first page of the first category failed, the second was fetched and
\* gave the items the category returned
C3_Witness ==
  /\ pc = "run"
  /\ cat = 2
  /\ failed = {1}
  /\ fetched = {1, 2}
  /\ items # <<>>

\* C4 as stated: for every cap (here every cap that a list can respect, 0
\* or more) the items of scrape_category never number more than the cap.
C4_NeverMoreThanCap == limit >= 0 => Len(items) <= limit

\* what scrape_category does give: the cap is respected from 1 on
CapHoldsFromOne == limit >= 1 => Len(items) <= limit

\* C7 as stated: a site whose selectors lack product_card issues no page
\* request, and its run does not end normally.
C7_FailsFastWithoutProductCard ==
  (pc \in {"run", "get", "response", "fetched", "cards", "raised", "done"}
     /\ ~site_cfg.has_product_card)
    => (~net_used /\ pc # "done")

ItemOk(it) ==
  /\ it.name # NoneText
  /\ it.name # <<>>
  /\ it.price.value # NoneVal

AllOk(its) == \A i \in 1..Len(its) : ItemOk(its[i])

\* the card at hand has no name, or a price text that gives no value
CardUnusable ==
  /\ pc = "cards"
  /\ ci <= Len(cards)
  /\ \/ card_name(FullSelectors, cards[ci]) = NoneText
     \/ price_memo[card_price_text(FullSelectors, cards[ci])].val = NoneVal

\* C8: every item of items, of all_items and of the output of run_scrape
\* has a non-empty name and a price value; a card with no name or with a
\* price that does not parse leaves items as they are and raises nothing.
C8_KeptItemsNamedAndPriced ==
  /\ [](AllOk(items) /\ AllOk(all_items) /\ AllOk(output))
  /\ [][CardUnusable => (items' = items /\ exc' = "none" /\ pc' # "raised")]_vars

\* a page whose first card was kept and whose second, with no price value,
\* was passed over
C8_Witness ==
  /\ pc = "cards"
  /\ cards = <<CardLink, CardNoPrice>>
  /\ ci > Len(cards)
  /\ Len(items) = 1

\* the last item of its that carries the id
LastWithId(its, id) ==
  its[CHOOSE i \in 1..Len(its) :
        its[i].id = id /\ \A j \in (i + 1)..Len(its) : its[j].id # id]

IdsOf(its) == {its[i].id : i \in 1..Len(its)}

\* C5: the dedup step returns one record for each id of its input and no
\* more, the last one of the input that carries the id; its result is no
\* longer than the number of ids; and the step returns its own result as
\* it is.
C5_DedupLastWinsIdempotent ==
  /\ pc \in {"dedup_once", "dedup_twice"} =>
       /\ \A i, j \in 1..Len(dd_once) : i # j => dd_once[i].id # dd_once[j].id
       /\ \A i \in 1..Len(dd_once) : dd_once[i] = LastWithId(dd_items, dd_once[i].id)
       /\ IdsOf(dd_once) = IdsOf(dd_items)
       /\ Len(dd_once) <= Cardinality(IdsOf(dd_items))
  /\ pc = "dedup_twice" => dd_twice = dd_once

\* a list with a repeated id went through the step twice
C5_Witness ==
  /\ pc = "dedup_twice"
  /\ Len(dd_once) >= 2
  /\ Len(dd_once) < Len(dd_items)

\* the values of key in a query, in order
RECURSIVE ValuesOf(_, _)
ValuesOf(query, key) ==
  IF query = <<>> THEN <<>>
  ELSE IF Head(query)[1] = key
       THEN <<Head(query)[2]>> \o ValuesOf(Tail(query), key)
       ELSE ValuesOf(Tail(query), key)

\* C6 as stated: paginate yields max_pages URLs, the k-th with param set to
\* start + k - 1, each with the scheme, host and path of the start URL and
\* with every other key of its query and all of that key's values.
C6_PaginateKeepsQuery ==
  pc = "paginate_done" =>
    /\ Len(pg_yielded) = pg_args.max_pages
    /\ \A k \in 1..Len(pg_yielded) :
         LET u == pg_yielded[k]
         IN /\ u.scheme = pg_args.url.scheme
            /\ u.host = pg_args.url.host
            /\ u.path = pg_args.url.path
            /\ ValuesOf(u.query, pg_args.param) = <<IntToText(pg_args.start + k - 1)>>
            /\ \A key \in QueryKeys \ {pg_args.param} :
                 ValuesOf(u.query, key) = ValuesOf(pg_args.url.query, key)

\* the first value of key in a query that is not blank, if any
FirstValue(query, key) ==
  LET vs == SelectSeq(ValuesOf(query, key), LAMBDA v : v # <<>>)
  IN IF vs = <<>> THEN <<>> ELSE <<vs[1]>>

\* what paginate does keep: the count, the page numbers, the scheme, host
\* and path, and the first non-blank value of every other key
PaginateKeepsFirstValues ==
  pc = "paginate_done" =>
    /\ Len(pg_yielded) = pg_args.max_pages
    /\ \A k \in 1..Len(pg_yielded) :
         LET u == pg_yielded[k]
         IN /\ u.scheme = pg_args.url.scheme
            /\ u.host = pg_args.url.host
            /\ u.path = pg_args.url.path
            /\ ValuesOf(u.query, pg_args.param) = <<IntToText(pg_args.start + k - 1)>>
            /\ \A key \in QueryKeys \ {pg_args.param} :
                 ValuesOf(u.query, key) = FirstValue(pg_args.url.query, key)

\* the text the name selector finds in the card drawn (NoneText when it
\* matches nothing)
SelectedName ==
  IF card_args.S.name THEN card_container(card_args.card).name_text ELSE NoneText

\* C9 as stated: the name is the name selector's text, else, for a link
\* only, the link's text; a link whose name selector matches nothing gives
\* an item named by the link text, whose url is the href resolved against
\* base_url; a card that is no link and whose name selector matches nothing
\* gives no item.
C9_LinkAlwaysNamed ==
  pc = "card_done" =>
    /\ SelectedName \notin {NoneText, <<>>} =>
         (card_item.exists /\ card_item.name = SelectedName)
    /\ (SelectedName = NoneText /\ card_args.card.name = "a") =>
         /\ card_item.exists
         /\ card_item.name = card_args.card.text
         /\ card_item.url = urljoin(BaseUrl, card_args.card.href)
    /\ (SelectedName = NoneText /\ card_args.card.name # "a") => ~card_item.exists

\* C9 as amended: the name is the name selector's text when it is not
\* empty, else, for a link only, the link's text; a link with a text whose
\* name selector gives no name yields an item named by the link text, whose
\* url is the href resolved against base_url, or base_url when the link has
\* no href or an empty one; a card that gets no name (no link, or a link
\* with no text) yields no item.
C9_NameResolution ==
  pc = "card_done" =>
    LET card == card_args.card
        none == SelectedName \in {NoneText, <<>>}
    IN /\ ~none => (card_item.exists /\ card_item.name = SelectedName)
       /\ (none /\ card.name = "a" /\ card.text # <<>>) =>
            (card_item.exists /\ card_item.name = card.text)
       /\ (card.name = "a" /\ card_item.exists) =>
            card_item.url = IF card.href.kind \in {"abs", "root", "rel"}
                            THEN urljoin(BaseUrl, card.href) ELSE BaseUrl
       /\ (none /\ card.name = "a" /\ card.text = <<>>) => ~card_item.exists
       /\ (none /\ card.name # "a") => ~card_item.exists

\* a link with a text and a root-relative href, whose name selector
\* matches nothing, was parsed into an item
C9_Witness ==
  /\ pc = "card_done"
  /\ card_args.card.name = "a"
  /\ SelectedName = NoneText
  /\ card_args.card.text # <<>>
  /\ card_args.card.href.kind = "root"
  /\ card_item.exists

\* C10 as stated: for a price text of the shape "<amount> €" or
\* "€<amount>", with a thousands group spaced off or none, either decimal
\* separator and an optional "/ <unit>", parse_price_unit returns the
\* currency "€", the value of the whole amount, and the unit after the slash.
C10_PriceExact ==
  pc = "price_done" =>
    /\ price_result.currency = <<"€">>
    /\ price_result.val = IntendedValue(price_input)
    /\ price_result.unit =
         IF price_input.unit = <<>> THEN NoneText ELSE price_input.unit

\* what parse_price_unit does give: the same for the amounts with no
\* thousands group
PriceExactWithoutGroup ==
  (pc = "price_done" /\ price_input.group = <<>>) =>
    /\ price_result.currency = <<"€">>
    /\ price_result.val = IntendedValue(price_input)
    /\ price_result.unit =
         IF price_input.unit = <<>> THEN NoneText ELSE price_input.unit

\* C11 as stated: when the first page of a category gives no card, the
\* start URL is fetched exactly once more before the next page, with a
\* pagination parameter or with none; and the start URL is fetched once
\* more after no page but the first.
C11_FirstPageRefetchedOnce ==
  /\ (pc = "cards" /\ page = 1 /\ cards = <<>>) => refetched = <<1>>
  /\ \A i \in 1..Len(refetched) : refetched[i] = 1
  /\ Len(refetched) <= 1

\* what scrape_category does give: the start URL is fetched once more after
\* the one page whose URL is the start URL itself, whichever page that is
RefetchedWhereUrlIsStartUrl ==
  pc \in {"get", "response", "fetched", "cards"} =>
    /\ (pc = "cards" /\ cards = <<>> /\ page_url = start_url(cat)) => refetched = <<page>>
    /\ \A i \in 1..Len(refetched) : page_urls(cat)[refetched[i]] = start_url(cat)
    /\ Len(refetched) <= 1

\* and the cards of the second fetch are the ones parsed when it returned
RefetchedCardsUsed ==
  [][(pc = "fetched" /\ caller = "retry") =>
       /\ pc' = "cards"
       /\ page' = page
       /\ cards' = IF fetch.outcome = "returned" THEN fetch.markup ELSE <<>>]_vars

====
